---------------------------- MODULE Spec2Model ----------------------------
(***************************************************************************)
(* A model of the statistical-arbitrage pipeline of analytics.py, of the   *)
(* dashboard script that calls it (dashboard.py) and of the tick ingestion *)
(* service (ingestion.py).                                                 *)
(*                                                                         *)
(* Each function of analytics.py is a small state machine over a record    *)
(* variable of its own: the input is drawn, then the function's steps run. *)
(* Prices, spreads and z-scores are exact (integers, or exact rationals /  *)
(* square roots of rationals); a float that pandas would hold as NaN is    *)
(* the value NaN below.                                                    *)
(***************************************************************************)
EXTENDS Integers, Sequences, FiniteSets, TLC

VARIABLES
    bt,     \* run_backtest: its DataFrame df, current_pos and where it is
    zs,     \* calculate_zscore: its arguments and the series it returns
    hd,     \* calculate_ols_hedge_ratio: its arguments and what it returns
    adf,    \* perform_adf_test and the dashboard's ADF caption
    ld,     \* load_data: the trades it reads and the bars it returns
    dash,   \* one run of the dashboard script
    ing     \* the ingestion service: the listeners and the trades table

vars == <<bt, zs, hd, adf, ld, dash, ing>>

\* A function that is not part of the specification at hand.
Idle == [pc |-> "idle"]

---------------------------------------------------------------------------
(* Floats as pandas holds them: a number or NaN.                           *)

NaN == [nan |-> TRUE, v |-> 0]

Num(x) == [nan |-> FALSE, v |-> x]

FMul(a, b) == IF a.nan \/ b.nan THEN NaN ELSE Num(a.v * b.v)

FAdd(a, b) == IF a.nan \/ b.nan THEN NaN ELSE Num(a.v + b.v)

FSub(a, b) == IF a.nan \/ b.nan THEN NaN ELSE Num(a.v - b.v)

\* Every comparison with NaN is false.
FGt(a, b) == ~a.nan /\ ~b.nan /\ a.v > b.v

FLt(a, b) == ~a.nan /\ ~b.nan /\ a.v < b.v

FGe(a, b) == ~a.nan /\ ~b.nan /\ a.v >= b.v

FLe(a, b) == ~a.nan /\ ~b.nan /\ a.v <= b.v

---------------------------------------------------------------------------
(* run_backtest                                                            *)

MaxSteps == 3
MaxZ == 2
MaxSpread == 1
MaxT == 1

SpreadVals == 0..MaxSpread

\* z-score values a row can hold; NaN is what an unfilled z-score would be.
ZVals == {Num(v) : v \in -MaxZ..MaxZ} \cup {NaN}

Thresholds == 1..MaxT

\* Mutant of NextPosition: the exit of a short also enters a long.
NextPositionFlip(current_pos, z, entry_threshold) ==
    IF current_pos = 0
    THEN IF FGt(z, Num(entry_threshold)) THEN -1
         ELSE IF FLt(z, Num(-entry_threshold)) THEN 1
         ELSE current_pos
    ELSE IF current_pos = -1 /\ FLe(z, Num(0))
         THEN (IF FLt(z, Num(-entry_threshold)) THEN 1 ELSE 0)
    ELSE IF current_pos = 1 /\ FGe(z, Num(0)) THEN 0
    ELSE current_pos

\* The body of the loop: the position after the row with z-score z.
NextPosition(current_pos, z, entry_threshold) ==
    IF current_pos = 0
    THEN IF FGt(z, Num(entry_threshold)) THEN -1
         ELSE IF FLt(z, Num(-entry_threshold)) THEN 1
         ELSE current_pos
    ELSE IF current_pos = -1 /\ FLe(z, Num(0)) THEN 0
    ELSE IF current_pos = 1 /\ FGe(z, Num(0)) THEN 0
    ELSE current_pos

\* Series.diff(): NaN first, then the difference with the previous row.
Diff(s) == [i \in 1..Len(s) |-> IF i = 1 THEN NaN ELSE FSub(s[i], s[i-1])]

\* Mutant of Shift1: no lag.
Shift1None(s) == s

\* Series.shift(1): NaN first, then the previous row's value.
Shift1(s) == [i \in 1..Len(s) |-> IF i = 1 THEN NaN ELSE s[i-1]]

\* Series.cumsum() (skipna): a NaN row stays NaN and adds nothing to the sum.
RECURSIVE RunningSum(_, _)
RunningSum(s, i) ==
    IF i = 0 THEN 0
    ELSE RunningSum(s, i-1) + (IF s[i].nan THEN 0 ELSE s[i].v)

CumSum(s) == [i \in 1..Len(s) |-> IF s[i].nan THEN NaN ELSE Num(RunningSum(s, i))]

BtInit ==
    /\ zs = Idle /\ hd = Idle /\ adf = Idle /\ ld = Idle /\ dash = Idle /\ ing = Idle
    /\ \E T \in Thresholds :
        bt = [pc |-> "loop", entry_threshold |-> T, spread |-> <<>>, z |-> <<>>,
              current_pos |-> 0, position |-> <<>>,
              spread_change |-> <<>>, pnl |-> <<>>, cumulative_pnl |-> <<>>]

\* One iteration of `for i in range(len(df))` over the next row of df.
run_backtest_step ==
    /\ bt.pc = "loop"
    /\ Len(bt.position) < MaxSteps
    /\ UNCHANGED <<zs, hd, adf, ld, dash, ing>>
    /\ \E s \in SpreadVals, z \in ZVals :
         LET pos == NextPosition(bt.current_pos, z, bt.entry_threshold)
         IN bt' = [bt EXCEPT !.spread = Append(@, Num(s)),
                             !.z = Append(@, z),
                             !.current_pos = pos,
                             !.position = Append(@, pos)]

\* The loop is over: the position column is set, then the PnL columns.
run_backtest_pnl ==
    /\ bt.pc = "loop"
    /\ UNCHANGED <<zs, hd, adf, ld, dash, ing>>
    /\ LET change == Diff(bt.spread)
           lagged == Shift1([i \in 1..Len(bt.position) |-> Num(bt.position[i])])
           pnl    == [i \in 1..Len(change) |-> FMul(lagged[i], change[i])]
       IN bt' = [bt EXCEPT !.pc = "done",
                           !.spread_change = change,
                           !.pnl = pnl,
                           !.cumulative_pnl = CumSum(pnl)]

BtNext == run_backtest_step \/ run_backtest_pnl

SpecBacktest == BtInit /\ [][BtNext]_vars

\* The position before row i (rows are numbered from 1): Flat before the first.
PrevPosition(i) == IF i = 1 THEN 0 ELSE bt.position[i-1]

(* C1: run_backtest starts Flat, and at every row the position follows from
   the previous position s and the row's z-score z: from Flat, Short if
   z > T, else Long if z < -T, else Flat; from Short, Flat if z <= 0, else
   Short; from Long, Flat if z >= 0, else Long.  No row flips Long to Short
   or Short to Long, and a row that exits does not enter. *)
C1_Transitions ==
    \A i \in 1..Len(bt.position) :
        LET s == PrevPosition(i)
            z == bt.z[i]
            T == Num(bt.entry_threshold)
            p == bt.position[i]
        IN /\ s = 0  => p = (IF FGt(z, T) THEN -1
                             ELSE IF FLt(z, Num(-bt.entry_threshold)) THEN 1 ELSE 0)
           /\ s = -1 => p = (IF FLe(z, Num(0)) THEN 0 ELSE -1)
           /\ s = 1  => p = (IF FGe(z, Num(0)) THEN 0 ELSE 1)
           /\ s * p # -1
           /\ (s # 0 /\ p # s) => p = 0

\* A run that enters short, exits on a z-score below -T and only then goes long.
C1_Witness ==
    /\ Len(bt.position) = 3
    /\ bt.position = <<-1, 0, 1>>
    /\ FLt(bt.z[2], Num(-bt.entry_threshold))

(* C2: for every row i after the first, pnl[i] is the position of row i-1
   times (spread[i] - spread[i-1]); the position of row i does not enter. *)
C2_LaggedPnl ==
    bt.pc = "done" =>
        \A i \in 2..Len(bt.pnl) :
            bt.pnl[i] = Num(bt.position[i-1] * (bt.spread[i].v - bt.spread[i-1].v))

\* A row whose own position differs from the previous one and that earns PnL.
C2_Witness ==
    /\ bt.pc = "done"
    /\ \E i \in 2..Len(bt.pnl) :
          /\ bt.position[i-1] # 0
          /\ bt.position[i] # bt.position[i-1]
          /\ bt.pnl[i] = Num(bt.position[i-1] * (bt.spread[i].v - bt.spread[i-1].v))
          /\ bt.pnl[i].v # 0

(* C3: for every non-empty input, pnl[0] = 0 and cumulative_pnl[0] = 0, and
   cumulative_pnl[i] = cumulative_pnl[i-1] + pnl[i] for every later row (rows
   are numbered from 1 here, so row 1 is the claim's step 0). *)
C3_PnlFromZero ==
    (bt.pc = "done" /\ Len(bt.pnl) >= 1) =>
        /\ bt.pnl[1] = Num(0)
        /\ bt.cumulative_pnl[1] = Num(0)
        /\ \A i \in 2..Len(bt.pnl) :
              bt.cumulative_pnl[i] = FAdd(bt.cumulative_pnl[i-1], bt.pnl[i])

---------------------------------------------------------------------------
(* calculate_zscore                                                        *)

MaxLen == 5
MaxPrice == 2
MaxWindow == 3

\* Spread values and rolling windows; the dashboard passes windows of 10 to
\* 200 and the default is 20: a window is at least 2 here (a window of 1 has
\* no sample standard deviation at all).
PriceVals == 0..MaxPrice

Windows == 2..MaxWindow

RECURSIVE SeqsUpTo(_, _)
SeqsUpTo(S, n) ==
    IF n = 0 THEN {<<>>}
    ELSE LET shorter == SeqsUpTo(S, n-1)
         IN shorter \cup {Append(q, x) : q \in {r \in shorter : Len(r) = n-1}, x \in S}

Sign(n) == IF n > 0 THEN 1 ELSE IF n < 0 THEN -1 ELSE 0

(* The values a float series holds here.  A rolling mean or variance is the
   rational num/den; a z-score is sgn * sqrt(num/den), which is exact where a
   standard deviation is a square root. *)
FNaN == [kind |-> "nan", sgn |-> 0, num |-> 0, den |-> 1]

FInf(sg) == [kind |-> "inf", sgn |-> sg, num |-> 0, den |-> 1]

FVal(sg, n, d) == [kind |-> "num", sgn |-> sg, num |-> n, den |-> d]

FZero == FVal(0, 0, 1)

RECURSIVE SumFrom(_, _, _)
SumFrom(s, lo, hi) == IF lo > hi THEN 0 ELSE s[lo] + SumFrom(s, lo+1, hi)

RECURSIVE SumSqFrom(_, _, _)
SumSqFrom(s, lo, hi) == IF lo > hi THEN 0 ELSE s[lo] * s[lo] + SumSqFrom(s, lo+1, hi)

\* spread.rolling(window).mean(): NaN until the window is full, then the mean
\* of the last `window` rows.
RollingMean(spread, window) ==
    [i \in 1..Len(spread) |->
        IF i < window THEN FNaN
        ELSE FVal(Sign(SumFrom(spread, i-window+1, i)),
                  SumFrom(spread, i-window+1, i), window)]

\* spread.rolling(window).std(): NaN until the window is full; then the sample
\* variance (ddof=1) is (w*Q - S*S) / (w*(w-1)), held here as that rational
\* (the standard deviation is its square root).
RollingVar(spread, window) ==
    [i \in 1..Len(spread) |->
        IF i < window \/ window < 2 THEN FNaN
        ELSE LET S == SumFrom(spread, i-window+1, i)
                 Q == SumSqFrom(spread, i-window+1, i)
             IN FVal(Sign(window * Q - S * S), window * Q - S * S,
                     window * (window - 1))]

\* (spread - mean) / std for one row, as IEEE division does it: NaN if either
\* operand is NaN, 0/0 is NaN, x/0 is +-Inf.
ZDivide(x, mean, var) ==
    IF mean.kind = "nan" \/ var.kind = "nan" THEN FNaN
    ELSE LET d == x * mean.den - mean.num     \* (x - mean) = d / mean.den
         IN IF var.num = 0
            THEN (IF d = 0 THEN FNaN ELSE FInf(Sign(d)))
            ELSE IF d = 0 THEN FZero
            ELSE FVal(Sign(d), d * d * var.den, mean.den * mean.den * var.num)

\* Mutant of FillNa0: nothing is filled.
FillNaNone(s) == s

\* Series.fillna(0)
FillNa0(s) == [i \in 1..Len(s) |-> IF s[i].kind = "nan" THEN FZero ELSE s[i]]

ZsInit ==
    /\ bt = Idle /\ hd = Idle /\ adf = Idle /\ ld = Idle /\ dash = Idle /\ ing = Idle
    /\ \E sp \in SeqsUpTo(PriceVals, MaxLen), w \in Windows :
         zs = [pc |-> "call", spread |-> sp, window |-> w, z_score |-> <<>>]

calculate_zscore ==
    /\ zs.pc = "call"
    /\ UNCHANGED <<bt, hd, adf, ld, dash, ing>>
    /\ LET mean == RollingMean(zs.spread, zs.window)
           var  == RollingVar(zs.spread, zs.window)
           z    == [i \in 1..Len(zs.spread) |-> ZDivide(zs.spread[i], mean[i], var[i])]
       IN zs' = [zs EXCEPT !.pc = "done",
                           !.z_score = IF zs.spread = <<>> THEN <<>> ELSE FillNa0(z)]

ZsNext == calculate_zscore

SpecZscore == ZsInit /\ [][ZsNext]_vars

\* The window that ends at row i, and w times each row's deviation from the
\* window's mean.
WindowSum(i) == SumFrom(zs.spread, i - zs.window + 1, i)

Dev(i, j) == zs.window * zs.spread[j] - WindowSum(i)

RECURSIVE SumDevSq(_, _, _)
SumDevSq(i, lo, hi) ==
    IF lo > hi THEN 0 ELSE Dev(i, lo) * Dev(i, lo) + SumDevSq(i, lo+1, hi)

IsConstant(s) == \A i, j \in 1..Len(s) : s[i] = s[j]

(* C4: calculate_zscore returns a series as long as the spread; z is 0.0 at
   each of the first w-1 rows whatever the spread, and at every row of a
   constant spread of at least w rows; no row is NaN or Inf; a row whose
   window has zero standard deviation is 0.0; and at every other row
   z = (spread - mean) / std over the last w rows, that is, with
   D = w*spread[i] - sum(window) and SS = sum of the squared w*x - sum(window):
   sign(z) = sign(D) and z^2 * SS = D^2 * (w-1). *)
C4_Zscore ==
    zs.pc = "done" =>
        /\ Len(zs.z_score) = Len(zs.spread)
        /\ \A i \in 1..Len(zs.z_score) :
             /\ zs.z_score[i].kind = "num"
             /\ i <= zs.window - 1 => zs.z_score[i] = FZero
             /\ (IsConstant(zs.spread) /\ Len(zs.spread) >= zs.window)
                    => zs.z_score[i] = FZero
             /\ i >= zs.window =>
                  LET SS == SumDevSq(i, i - zs.window + 1, i)
                      D  == Dev(i, i)
                      z  == zs.z_score[i]
                  IN IF SS = 0 THEN z = FZero
                     ELSE /\ z.sgn = Sign(D)
                          /\ z.den > 0
                          /\ z.num * SS = D * D * (zs.window - 1) * z.den

\* A spread with an incomplete window, a window of zero deviation and a
\* window with a z-score that is not zero.
C4_Witness ==
    /\ zs.pc = "done"
    /\ zs.window = 2
    /\ Len(zs.spread) = 4
    /\ zs.spread[2] = zs.spread[3]
    /\ zs.z_score[3] = FZero
    /\ zs.z_score[4].sgn = -1
    /\ zs.z_score[1] = FZero

---------------------------------------------------------------------------
(* calculate_ols_hedge_ratio                                               *)

MaxPairs == 5

\* len(df) < 5 returns 0.0
MinPairs == 5

\* The rows of pd.concat([series_y, series_x], axis=1): a y and an x, either
\* of which is NaN where only the other series has the timestamp.
HedgeYVals == {1, 2}

HedgeXVals == {0, 1, 2}

HedgeRows ==
    {[y |-> Num(a), x |-> Num(b)] : a \in HedgeYVals, b \in HedgeXVals}
        \cup {[y |-> NaN, x |-> Num(1)], [y |-> Num(1), x |-> NaN]}

\* A rational num/den, den > 0.
Rat(n, d) == [num |-> n, den |-> d]

RatZero == Rat(0, 1)

RatNorm(n, d) == IF n = 0 THEN RatZero ELSE IF d < 0 THEN Rat(-n, -d) ELSE Rat(n, d)

\* DataFrame.dropna(): the rows without a NaN.
DropNaRows(rows) == SelectSeq(rows, LAMBDA r : ~r.y.nan /\ ~r.x.nan)

Total(s) == SumFrom(s, 1, Len(s))

ColY(df) == [i \in 1..Len(df) |-> df[i].y.v]

ColX(df) == [i \in 1..Len(df) |-> df[i].x.v]

ColXY(df) == [i \in 1..Len(df) |-> df[i].x.v * df[i].y.v]

ColXX(df) == [i \in 1..Len(df) |-> df[i].x.v * df[i].x.v]

XIsConstant(df) == \A i, j \in 1..Len(df) : df[i].x.v = df[j].x.v

\* Mutant of AddConstant: has_constant='add', the intercept column is always
\* added.
AddConstantAlways(df) == <<"const", "x">>

\* sm.add_constant(x) with its default has_constant='skip': the columns of
\* the design matrix.  A column of 1s is prepended unless x already is a
\* constant other than 0, and then x is returned as it is.
AddConstant(df) ==
    IF Len(df) > 0 /\ XIsConstant(df) /\ df[1].x.v # 0
    THEN <<"x">>
    ELSE <<"const", "x">>

\* sm.OLS(Y, X).fit().params: the least-squares coefficients, one per column
\* of the design (by pseudo-inverse: the minimum-norm solution when the
\* columns are dependent).
OLSParams(df, cols) ==
    LET n   == Len(df)
        Sy  == Total(ColY(df))
        Sx  == Total(ColX(df))
        Sxy == Total(ColXY(df))
        Sxx == Total(ColXX(df))
    IN IF cols = <<"x">>
       THEN <<RatNorm(Sxy, Sxx)>>
       ELSE IF XIsConstant(df)
       THEN LET c == df[1].x.v
            IN <<RatNorm(Sy, n * (1 + c * c)), RatNorm(c * Sy, n * (1 + c * c))>>
       ELSE LET bn == n * Sxy - Sx * Sy
                bd == n * Sxx - Sx * Sx
            IN <<RatNorm(bd * Sy - bn * Sx, n * bd), RatNorm(bn, bd)>>

HdInit ==
    /\ bt = Idle /\ zs = Idle /\ adf = Idle /\ ld = Idle /\ dash = Idle /\ ing = Idle
    /\ \E rows \in SeqsUpTo(HedgeRows, MaxPairs) :
         hd = [pc |-> "call", rows |-> rows, result |-> RatZero, raised |-> FALSE]

\* The try block: the fit and params.iloc[1], which raises IndexError when
\* the fit has a single coefficient.
FitSlope(df) ==
    LET params == OLSParams(df, AddConstant(df))
    IN IF Len(params) < 2
       THEN [exc |-> TRUE, value |-> RatZero]
       ELSE [exc |-> FALSE, value |-> params[2]]

\* The whole function: the early return, and the bare except that turns any
\* exception of the try block into 0.0.
calculate_ols_hedge_ratio ==
    /\ hd.pc = "call"
    /\ UNCHANGED <<bt, zs, adf, ld, dash, ing>>
    /\ LET df == DropNaRows(hd.rows)
       IN IF Len(df) = 0 \/ Len(df) < MinPairs
          THEN hd' = [hd EXCEPT !.pc = "done", !.result = RatZero]
          ELSE LET r == FitSlope(df)
               IN hd' = [hd EXCEPT !.pc = "done",
                                   !.result = IF r.exc THEN RatZero ELSE r.value,
                                   !.raised = FALSE]

HdNext == calculate_ols_hedge_ratio

SpecHedge == HdInit /\ [][HdNext]_vars

\* The paired observations of the call, and n * den times the residual of
\* observation i for the slope num/den and the least-squares intercept.
HdPairs == DropNaRows(hd.rows)

HdResidual(i) ==
    LET df == HdPairs
        n  == Len(df)
        Sy == Total(ColY(df))
        Sx == Total(ColX(df))
    IN n * hd.result.den * df[i].y.v
         - (hd.result.den * Sy - hd.result.num * Sx)
         - n * hd.result.num * df[i].x.v

(* C6: calculate_ols_hedge_ratio returns 0.0 and does not raise when fewer
   than 5 paired observations remain after the unpaired rows are dropped, or
   when X is constant; with at least 5 pairs and an X that is not constant it
   returns the least-squares slope of Y on [1, X]: the slope whose residuals
   (with the least-squares intercept) sum to zero and are orthogonal to X. *)
C6_HedgeRatio ==
    hd.pc = "done" =>
        LET df == HdPairs
            n  == Len(df)
        IN /\ ~hd.raised
           /\ hd.result.den > 0
           /\ (n < 5 \/ XIsConstant(df)) => hd.result = RatZero
           /\ (n >= 5 /\ ~XIsConstant(df)) =>
                /\ Total([i \in 1..n |-> HdResidual(i)]) = 0
                /\ Total([i \in 1..n |-> HdResidual(i) * df[i].x.v]) = 0

\* Five pairs with a constant X that is not zero: the fit has one coefficient.
C6_Witness ==
    /\ hd.pc = "done"
    /\ Len(HdPairs) = 5
    /\ XIsConstant(HdPairs)
    /\ HdPairs[1].x.v = 2
    /\ ~IsConstant(ColY(HdPairs))
    /\ hd.result = RatZero

---------------------------------------------------------------------------
(* perform_adf_test, and the caption the dashboard shows for its result    *)

MaxAdfLen == 21
MaxNaNs == 2

\* len(clean_spread) < 20 returns None
MinAdfObs == 20

\* result[1] < 0.05, in thousandths
Alpha == 50

RECURSIVE SubsetsUpTo(_, _)
SubsetsUpTo(S, k) ==
    IF k = 0 THEN {{}}
    ELSE LET smaller == SubsetsUpTo(S, k-1)
         IN smaller \cup {t \cup {x} : t \in smaller, x \in S}

\* The spreads of a call: up to MaxAdfLen rows, NaN at up to MaxNaNs of them.
\* adfuller is the library's: what it makes of the values is drawn below, so
\* every number of the spread is the same here.
AdfSpreads ==
    {[i \in 1..n |-> IF i \in gaps THEN NaN ELSE Num(1)] :
        n \in 0..MaxAdfLen, gaps \in SubsetsUpTo(1..MaxAdfLen, MaxNaNs)}

\* What adfuller(clean_spread) does: it raises, or it returns a p-value (in
\* thousandths), which is NaN for a degenerate regression.
AdfOutcomes ==
    {[raises |-> TRUE, p_value |-> NaN]}
        \cup {[raises |-> FALSE, p_value |-> p] :
                p \in {Num(0), Num(49), Num(50), Num(51), Num(1000), NaN}}

\* Mutant of DropNa: the NaN rows are kept.
DropNaNone(s) == s

\* Series.dropna()
DropNa(s) == SelectSeq(s, LAMBDA v : ~v.nan)

\* The value None, and the dict the function returns otherwise (adf_stat,
\* which nothing decides on, is left out).
None == [available |-> FALSE, p_value |-> NaN, is_stationary |-> FALSE]

AdfResult(p) == [available |-> TRUE, p_value |-> p, is_stationary |-> FLt(p, Num(Alpha))]

NoCaption == [shown |-> FALSE, p_value |-> NaN, is_stationary |-> FALSE]

AdfInit ==
    /\ bt = Idle /\ zs = Idle /\ hd = Idle /\ ld = Idle /\ dash = Idle /\ ing = Idle
    /\ \E sp \in AdfSpreads :
         adf = [pc |-> "call", spread |-> sp, raised |-> FALSE,
                adf_res |-> None, caption |-> NoCaption]

perform_adf_test ==
    /\ adf.pc = "call"
    /\ UNCHANGED <<bt, zs, hd, ld, dash, ing>>
    /\ LET clean_spread == DropNa(adf.spread)
       IN IF Len(clean_spread) < MinAdfObs
          THEN adf' = [adf EXCEPT !.pc = "returned", !.adf_res = None]
          ELSE \E out \in AdfOutcomes :
                 adf' = [adf EXCEPT !.pc = "returned",
                                    !.raised = out.raises,
                                    !.adf_res = IF out.raises THEN None
                                                ELSE AdfResult(out.p_value)]

\* dashboard.py: `if adf_res: st.caption(...)`.  None is falsy, the dict is not.
adf_caption ==
    /\ adf.pc = "returned"
    /\ UNCHANGED <<bt, zs, hd, ld, dash, ing>>
    /\ adf' = [adf EXCEPT !.pc = "shown",
                          !.caption = IF adf.adf_res.available
                                      THEN [shown |-> TRUE,
                                            p_value |-> adf.adf_res.p_value,
                                            is_stationary |-> adf.adf_res.is_stationary]
                                      ELSE NoCaption]

AdfNext == perform_adf_test \/ adf_caption

SpecAdf == AdfInit /\ [][AdfNext]_vars

\* The number of rows of the spread that are not NaN.
ValidObs == Cardinality({i \in 1..Len(adf.spread) : ~adf.spread[i].nan})

(* C7: perform_adf_test returns None for a spread with fewer than 20 valid
   observations and when the test raises; a result it returns has
   is_stationary true exactly when p_value < 0.05; and the dashboard shows a
   verdict only for a result that is available, and then that result's. *)
C7_AdfGating ==
    adf.pc \in {"returned", "shown"} =>
        /\ (ValidObs < 20 \/ adf.raised) => adf.adf_res = None
        /\ adf.adf_res.available =>
             (adf.adf_res.is_stationary <=> FLt(adf.adf_res.p_value, Num(50)))
        /\ adf.pc = "shown" =>
             /\ adf.caption.shown <=> adf.adf_res.available
             /\ adf.caption.shown =>
                  adf.caption.is_stationary = adf.adf_res.is_stationary

\* A spread of 21 rows of which 19 are valid, shown without a verdict.
C7_Witness ==
    /\ adf.pc = "shown"
    /\ Len(adf.spread) = 21
    /\ ValidObs = 19
    /\ adf.adf_res = None
    /\ ~adf.caption.shown

---------------------------------------------------------------------------
(* load_data                                                               *)

MaxTicks == 3
MaxTime == 3

\* limit=10000
QueryLimit == 10000

LdSymbols == {"btcusdt", "ethusdt"}

TickPrices == {1, 2}

\* The width of a bar, in the unit of the timestamps: the dashboard's
\* timeframes are "1S", "1Min" and "5Min".
Timeframes == {1, 2}

\* A row of the trades table (the quantity is never read by load_data).
TradeRows ==
    {[symbol |-> sym, timestamp |-> t, price |-> p] :
        sym \in LdSymbols, t \in 0..MaxTime, p \in TickPrices}

\* The orders of the rows of s, as sequences of row numbers.
Perms(n) == {f \in [1..n -> 1..n] : \A i, j \in 1..n : i # j => f[i] # f[j]}

\* WHERE symbol = '{symbol}'
WhereSymbol(trades, symbol) == SelectSeq(trades, LAMBDA r : r.symbol = symbol)

\* ORDER BY timestamp DESC: the orders SQLite may return the rows in (rows
\* of one timestamp come in no promised order).
OrderByDesc(rows) ==
    {[i \in 1..Len(rows) |-> rows[f[i]]] : f \in
        {g \in Perms(Len(rows)) :
            \A i \in 1..Len(rows) - 1 : rows[g[i]].timestamp >= rows[g[i+1]].timestamp}}

\* LIMIT {limit}
Limit(rows, limit) == IF Len(rows) <= limit THEN rows ELSE SubSeq(rows, 1, limit)

\* df.sort_values('timestamp') with the default quicksort, which is not
\* stable: the orders it may leave the rows in.
SortValues(rows) ==
    {[i \in 1..Len(rows) |-> rows[f[i]]] : f \in
        {g \in Perms(Len(rows)) :
            \A i \in 1..Len(rows) - 1 : rows[g[i]].timestamp <= rows[g[i+1]].timestamp}}

\* The left edge of the bin of width tf that holds t.
BinStart(t, tf) == t - (t % tf)

SeqMax(s) == CHOOSE m \in {s[i] : i \in 1..Len(s)} : \A i \in 1..Len(s) : s[i] <= m

SeqMin(s) == CHOOSE m \in {s[i] : i \in 1..Len(s)} : \A i \in 1..Len(s) : s[i] >= m

NaNBar(start) ==
    [timestamp |-> start, nan |-> TRUE, open |-> 0, high |-> 0, low |-> 0, close |-> 0]

\* Mutant of Ohlc: the close is the highest price, not the last.
OhlcCloseHigh(start, prices) ==
    IF prices = <<>> THEN NaNBar(start)
    ELSE [timestamp |-> start, nan |-> FALSE, open |-> prices[1],
          high |-> SeqMax(prices), low |-> SeqMin(prices), close |-> SeqMax(prices)]

\* .ohlc() of one bin: NaN for a bin without rows.
Ohlc(start, prices) ==
    IF prices = <<>> THEN NaNBar(start)
    ELSE [timestamp |-> start, nan |-> FALSE, open |-> prices[1],
          high |-> SeqMax(prices), low |-> SeqMin(prices), close |-> prices[Len(prices)]]

\* df['price'].resample(timeframe).ohlc(): one row per bin from the bin of the
\* first row to the bin of the last, bins closed and labelled on the left.
Resample(df, tf) ==
    IF df = <<>> THEN <<>>
    ELSE LET first == BinStart(df[1].timestamp, tf)
             last  == BinStart(df[Len(df)].timestamp, tf)
             nbins == (last - first) \div tf + 1
             InBin(k) == SelectSeq(df, LAMBDA r : BinStart(r.timestamp, tf) = first + (k-1) * tf)
         IN [k \in 1..nbins |->
                Ohlc(first + (k-1) * tf,
                     [i \in 1..Len(InBin(k)) |-> InBin(k)[i].price])]

\* resampled.dropna(inplace=True)
DropNaBars(bars) == SelectSeq(bars, LAMBDA b : ~b.nan)

LdInit ==
    /\ bt = Idle /\ zs = Idle /\ hd = Idle /\ adf = Idle /\ dash = Idle /\ ing = Idle
    /\ \E trades \in SeqsUpTo(TradeRows, MaxTicks), sym \in LdSymbols, tf \in Timeframes :
         ld = [pc |-> "call", trades |-> trades, symbol |-> sym, timeframe |-> tf,
               error |-> FALSE, df |-> <<>>, resampled |-> <<>>]

\* The query returns rows, or none (`if df.empty: return pd.DataFrame()`).
load_data ==
    /\ ld.pc = "call"
    /\ UNCHANGED <<bt, zs, hd, adf, dash, ing>>
    /\ \E read \in OrderByDesc(WhereSymbol(ld.trades, ld.symbol)) :
         \E df \in SortValues(Limit(read, QueryLimit)) :
            ld' = [ld EXCEPT !.pc = "done",
                             !.df = df,
                             !.resampled = IF df = <<>> THEN <<>>
                                           ELSE DropNaBars(Resample(df, ld.timeframe))]

\* sqlite3 or pandas raises (no database, no trades table yet): the except
\* branch prints the error and returns an empty DataFrame.
load_data_error ==
    /\ ld.pc = "call"
    /\ UNCHANGED <<bt, zs, hd, adf, dash, ing>>
    /\ ld' = [ld EXCEPT !.pc = "done", !.error = TRUE, !.df = <<>>, !.resampled = <<>>]

LdNext == load_data \/ load_data_error

SpecLoad == LdInit /\ [][LdNext]_vars

\* The rows of df in the bar that starts at `start`, as row numbers of df.
TicksOfBar(start) ==
    {i \in 1..Len(ld.df) :
        start <= ld.df[i].timestamp /\ ld.df[i].timestamp < start + ld.timeframe}

\* The number of rows of the trades table equal to r, and of df.
CountIn(s, r) == Cardinality({i \in 1..Len(s) : s[i] = r})

(* C8: the ticks load_data read are the symbol's trades; each of them lies in
   exactly one bar that is returned, in the half-open interval of that bar;
   no bar is returned for an interval without ticks; a bar's open is the
   price of the first tick of its interval, its close that of the last, its
   high and low the highest and lowest; bars come in increasing order; and
   without ticks no bar is returned and nothing is raised. *)
C8_Bars ==
    ld.pc = "done" =>
        LET bars == ld.resampled
        IN /\ ~ld.error =>
                \A r \in TradeRows :
                    CountIn(ld.df, r) = (IF r.symbol = ld.symbol THEN CountIn(ld.trades, r) ELSE 0)
           /\ \A i \in 1..Len(ld.df) :
                Cardinality({k \in 1..Len(bars) : i \in TicksOfBar(bars[k].timestamp)}) = 1
           /\ \A k \in 1..Len(bars) :
                LET ticks == TicksOfBar(bars[k].timestamp)
                IN /\ ticks # {}
                   /\ ~bars[k].nan
                   /\ bars[k].timestamp % ld.timeframe = 0
                   /\ \E lo \in ticks, hi \in ticks :
                        /\ \A i \in ticks : lo <= i /\ i <= hi
                        /\ bars[k].open = ld.df[lo].price
                        /\ bars[k].close = ld.df[hi].price
                   /\ \A i \in ticks : /\ ld.df[i].price <= bars[k].high
                                       /\ ld.df[i].price >= bars[k].low
                   /\ \E i \in ticks : ld.df[i].price = bars[k].high
                   /\ \E i \in ticks : ld.df[i].price = bars[k].low
           /\ \A k \in 1..Len(bars) - 1 : bars[k].timestamp < bars[k+1].timestamp
           /\ WhereSymbol(ld.trades, ld.symbol) = <<>> => bars = <<>>

\* Three ticks in two bars with a gap between them, the first bar's close
\* below its high.
C8_Witness ==
    /\ ld.pc = "done"
    /\ ld.timeframe = 1
    /\ Len(ld.df) = 3
    /\ Len(ld.resampled) = 2
    /\ ld.resampled[1].timestamp = 0
    /\ ld.resampled[2].timestamp = 2
    /\ ld.resampled[1].open = 2
    /\ ld.resampled[1].close = 1
    /\ ld.resampled[1].high = 2

---------------------------------------------------------------------------
(* dashboard.py: one run of the script, from the two bar frames load_data   *)
(* returned to the branch it takes                                         *)

MaxGaps == 2
WindowSpan == 1

\* number_input("Rolling Window", min_value=10, ...)
MinWindow == 10

WindowSizes == MinWindow..(MinWindow + WindowSpan)

\* The bins a bar can lie in: enough of them for a frame to have more bars
\* than the rolling window and still miss some.
Slots == 0..(MinWindow + 2)

\* The close of a symbol's bar at bin t.
CloseOf(sym, t) == IF sym = "y" THEN 100 + t ELSE 50 + (t % 3)

\* The sequence of the elements of a set of numbers, in increasing order.
RECURSIVE Ascending(_)
Ascending(S) ==
    IF S = {} THEN <<>>
    ELSE LET m == CHOOSE x \in S : \A y \in S : x <= y
         IN <<m>> \o Ascending(S \ {m})

\* What load_data can return for a symbol: no bar at all, or a bar at every
\* bin but up to MaxGaps of them, in increasing order of timestamp.
BarFrames(sym) ==
    {<<>>} \cup
    {[i \in 1..Len(Ascending(Slots \ gaps)) |->
        [timestamp |-> Ascending(Slots \ gaps)[i],
         close |-> CloseOf(sym, Ascending(Slots \ gaps)[i])]] :
        gaps \in SubsetsUpTo(Slots, MaxGaps)}

Index(df) == [i \in 1..Len(df) |-> df[i].timestamp]

\* Index.intersection of two increasing indexes: the merge of the two.
RECURSIVE Intersection(_, _)
Intersection(a, b) ==
    IF a = <<>> \/ b = <<>> THEN <<>>
    ELSE IF Head(a) < Head(b) THEN Intersection(Tail(a), b)
    ELSE IF Head(a) > Head(b) THEN Intersection(a, Tail(b))
    ELSE <<Head(a)>> \o Intersection(Tail(a), Tail(b))

\* Mutant of LocClose: the rows are taken by position, not by label.
LocCloseByPosition(df, idx) ==
    [i \in 1..Len(idx) |-> [timestamp |-> df[i].timestamp, close |-> df[i].close]]

\* df.loc[common_idx]['close']: the close of the row with each label.
LocClose(df, idx) ==
    [i \in 1..Len(idx) |->
        LET row == CHOOSE k \in 1..Len(df) : df[k].timestamp = idx[i]
        IN [timestamp |-> idx[i], close |-> df[row].close]]

DashInit ==
    /\ bt = Idle /\ zs = Idle /\ hd = Idle /\ adf = Idle /\ ld = Idle /\ ing = Idle
    /\ \E fy \in BarFrames("y"), fx \in BarFrames("x"), w \in WindowSizes :
         dash = [pc |-> "loaded", df_y |-> fy, df_x |-> fx, window_size |-> w,
                 common_idx |-> <<>>, series_y |-> <<>>, series_x |-> <<>>,
                 shown |-> "nothing"]

\* A frame is empty: st.warning("Waiting for Data Stream...").
dashboard_waiting ==
    /\ dash.pc = "loaded"
    /\ dash.df_y = <<>> \/ dash.df_x = <<>>
    /\ UNCHANGED <<bt, zs, hd, adf, ld, ing>>
    /\ dash' = [dash EXCEPT !.pc = "done", !.shown = "waiting"]

\* Both frames have bars and `len(common_idx) > window_size` is false:
\* st.info("Insufficient data. Waiting for {window_size} overlapping periods...").
dashboard_insufficient ==
    /\ dash.pc = "loaded"
    /\ dash.df_y # <<>> /\ dash.df_x # <<>>
    /\ UNCHANGED <<bt, zs, hd, adf, ld, ing>>
    /\ LET common_idx == Intersection(Index(dash.df_y), Index(dash.df_x))
       IN /\ ~(Len(common_idx) > dash.window_size)
          /\ dash' = [dash EXCEPT !.pc = "done", !.common_idx = common_idx,
                                  !.shown = "insufficient"]

\* Both frames have bars and `len(common_idx) > window_size`: the two close
\* series are taken and the analytics run on them (hedge ratio, spread,
\* z-score, correlation, ADF test, backtest) and are displayed.
dashboard_analytics ==
    /\ dash.pc = "loaded"
    /\ dash.df_y # <<>> /\ dash.df_x # <<>>
    /\ UNCHANGED <<bt, zs, hd, adf, ld, ing>>
    /\ LET common_idx == Intersection(Index(dash.df_y), Index(dash.df_x))
       IN /\ Len(common_idx) > dash.window_size
          /\ dash' = [dash EXCEPT !.pc = "done", !.common_idx = common_idx,
                                  !.series_y = LocClose(dash.df_y, common_idx),
                                  !.series_x = LocClose(dash.df_x, common_idx),
                                  !.shown = "analytics"]

DashNext == dashboard_waiting \/ dashboard_insufficient \/ dashboard_analytics

SpecDashboard == DashInit /\ [][DashNext]_vars

\* The timestamps of a frame, and those both frames of the run have.
Timestamps(df) == {df[i].timestamp : i \in 1..Len(df)}

CommonTimestamps == Timestamps(dash.df_y) \cap Timestamps(dash.df_x)

(* C5: the dashboard skips the analytics exactly when the number of
   timestamps common to both bar frames is below the rolling window size; with
   at least as many common timestamps as the window, the window size itself
   included, the analytics run. *)
C5_GateAtWindow ==
    dash.pc = "done" =>
        (dash.shown # "analytics" <=> Cardinality(CommonTimestamps) < dash.window_size)

\* The close of the bar of df at timestamp t.
CloseAt(df, t) == (CHOOSE b \in {df[i] : i \in 1..Len(df)} : b.timestamp = t).close

(* C9: the aligned pair has exactly the timestamps present in both bar
   frames, once each and in strictly increasing order, the two series are as
   long as each other and as the intersection is large, and each value is the
   close of the input bar at its timestamp. *)
C9_Alignment ==
    (dash.pc = "done" /\ dash.shown = "analytics") =>
        /\ Len(dash.series_y) = Cardinality(CommonTimestamps)
        /\ Len(dash.series_x) = Len(dash.series_y)
        /\ Timestamps(dash.series_y) = CommonTimestamps
        /\ \A i \in 1..Len(dash.series_y) :
             /\ dash.series_x[i].timestamp = dash.series_y[i].timestamp
             /\ dash.series_y[i].close = CloseAt(dash.df_y, dash.series_y[i].timestamp)
             /\ dash.series_x[i].close = CloseAt(dash.df_x, dash.series_x[i].timestamp)
        /\ \A i \in 1..Len(dash.series_y) - 1 :
             dash.series_y[i].timestamp < dash.series_y[i+1].timestamp

\* Two frames that miss different bars, aligned on fewer bars than either has.
C9_Witness ==
    /\ dash.pc = "done"
    /\ dash.shown = "analytics"
    /\ Len(dash.series_y) < Len(dash.df_y)
    /\ Len(dash.series_y) < Len(dash.df_x)
    /\ Timestamps(dash.df_y) # Timestamps(dash.df_x)
    /\ 0 \notin Timestamps(dash.df_y)

---------------------------------------------------------------------------
(* ingestion.py: main() gathers one binance_listener per symbol; all of    *)
(* them insert into the one trades table                                   *)

MaxTrades == 2

SYMBOLS == {"btcusdt", "ethusdt", "solusdt", "bnbusdt"}

\* What a trade message carries: p, q and T.
MsgPrices == {1, 2}

MsgQuantities == {1}

MsgTimes == {0}

\* The last line a listener or save_trade printed.
NoLine == [line |-> "none", symbol |-> "none"]

Connected(sym) == [line |-> "Connected to", symbol |-> sym]

ConnectionError(sym) == [line |-> "Connection error for", symbol |-> sym]

DBError == [line |-> "DB Error", symbol |-> "none"]

\* Mutant of OnException: the exception leaves the listener.
OnExceptionStop(pc, sym) == [pc EXCEPT ![sym] = "stopped"]

\* `except Exception` of the reconnect loop: the listener goes to sleep for
\* 5 s; the `while True` then connects again.
OnException(pc, sym) == [pc EXCEPT ![sym] = "sleep"]

\* save_trade: the INSERT, or, when sqlite raises, nothing but a printed line.
SaveTrade(trades, row, db_ok) == IF db_ok THEN Append(trades, row) ELSE trades

IngInit ==
    /\ bt = Idle /\ zs = Idle /\ hd = Idle /\ adf = Idle /\ ld = Idle /\ dash = Idle
    /\ ing = [pc |-> [sym \in SYMBOLS |-> "connect"], trades |-> <<>>, printed |-> NoLine]

\* `async with connect(url)` succeeds.
connect_ok(sym) ==
    /\ UNCHANGED <<bt, zs, hd, adf, ld, dash>>
    /\ ing.pc[sym] = "connect"
    /\ ing' = [ing EXCEPT !.pc[sym] = "recv", !.printed = Connected(sym)]

\* connect(url) raises.
connect_error(sym) ==
    /\ UNCHANGED <<bt, zs, hd, adf, ld, dash>>
    /\ ing.pc[sym] = "connect"
    /\ ing' = [ing EXCEPT !.pc = OnException(ing.pc, sym),
                          !.printed = ConnectionError(sym)]

\* A trade message arrives and is parsed; save_trade inserts it, or fails
\* and prints the error.
recv_trade(sym) ==
    /\ UNCHANGED <<bt, zs, hd, adf, ld, dash>>
    /\ ing.pc[sym] = "recv"
    /\ Len(ing.trades) < MaxTrades
    /\ \E p \in MsgPrices, q \in MsgQuantities, t \in MsgTimes, db_ok \in BOOLEAN :
         LET row == [symbol |-> sym, price |-> p, quantity |-> q, timestamp |-> t]
         IN ing' = [ing EXCEPT !.trades = SaveTrade(ing.trades, row, db_ok),
                               !.printed = IF db_ok THEN ing.printed ELSE DBError]

\* A message arrives that is no trade event: nothing is done with it.
recv_other(sym) ==
    /\ UNCHANGED <<bt, zs, hd, adf, ld, dash>>
    /\ ing.pc[sym] = "recv"
    /\ ing' = ing

\* websocket.recv() raises, the message is no JSON, or a trade event lacks a
\* field or holds no number: the exception leaves both loops' bodies.
recv_error(sym) ==
    /\ UNCHANGED <<bt, zs, hd, adf, ld, dash>>
    /\ ing.pc[sym] = "recv"
    /\ ing' = [ing EXCEPT !.pc = OnException(ing.pc, sym),
                          !.printed = ConnectionError(sym)]

\* asyncio.sleep(5) is over: back to the top of `while True`.
sleep_over(sym) ==
    /\ UNCHANGED <<bt, zs, hd, adf, ld, dash>>
    /\ ing.pc[sym] = "sleep"
    /\ ing' = [ing EXCEPT !.pc[sym] = "connect"]

\* A step of the listener of sym.
binance_listener(sym) ==
    \/ connect_ok(sym)
    \/ connect_error(sym)
    \/ recv_trade(sym)
    \/ recv_other(sym)
    \/ recv_error(sym)
    \/ sleep_over(sym)

\* asyncio.gather(*tasks): the event loop runs a step of any listener.
IngNext ==
    \/ \E sym \in SYMBOLS : connect_ok(sym)
    \/ \E sym \in SYMBOLS : connect_error(sym)
    \/ \E sym \in SYMBOLS : recv_trade(sym)
    \/ \E sym \in SYMBOLS : recv_other(sym)
    \/ \E sym \in SYMBOLS : recv_error(sym)
    \/ \E sym \in SYMBOLS : sleep_over(sym)

\* The event loop resumes a listener whose sleep is over.
SpecIngest ==
    /\ IngInit
    /\ [][IngNext]_vars
    /\ \A sym \in SYMBOLS : WF_vars(sleep_over(sym))

\* A step in which listener sym meets an exception.
FailsIn(sym) ==
    /\ ing.pc[sym] \in {"connect", "recv"}
    /\ ing'.pc[sym] # ing.pc[sym]
    /\ ing'.printed = ConnectionError(sym)
    /\ ing'.pc[sym] # "recv"

IngStep ==
    \* an exception in a listener puts it to sleep and leaves the others as
    \* they are
    /\ \A sym \in SYMBOLS :
         FailsIn(sym) =>
            /\ ing'.pc[sym] = "sleep"
            /\ \A other \in SYMBOLS \ {sym} : ing'.pc[other] = ing.pc[other]
    \* a failed save_trade leaves every listener where it is, the receiving
    \* one in its receive loop
    /\ (ing'.printed = DBError /\ ing.printed # DBError) =>
            /\ ing'.pc = ing.pc
            /\ ing'.trades = ing.trades
    \* the trades table only grows, by rows added at its end
    /\ Len(ing'.trades) >= Len(ing.trades)
    /\ SubSeq(ing'.trades, 1, Len(ing.trades)) = ing.trades

(* C10: no listener ever ends on an error: an exception while connecting,
   receiving or handling a message puts it to sleep, after which it connects
   again; a failed save_trade is swallowed and the receive loop goes on; an
   error in one listener neither stops nor blocks another (every listener can
   always take its next step); and the trades table changes by inserts only. *)
C10_Listeners ==
    /\ [](\A sym \in SYMBOLS :
            /\ ing.pc[sym] \in {"connect", "recv", "sleep"}
            /\ ENABLED binance_listener(sym))
    /\ [][IngStep]_vars
    /\ \A sym \in SYMBOLS : (ing.pc[sym] = "sleep") ~> (ing.pc[sym] = "connect")

\* One listener asleep after an error of its own, having inserted before,
\* while another goes on receiving and inserting.
C10_Witness ==
    \E a, b \in SYMBOLS :
        /\ a # b
        /\ ing.pc[a] = "sleep"
        /\ ing.printed = ConnectionError(a)
        /\ ing.pc[b] = "recv"
        /\ Len(ing.trades) = 2
        /\ ing.trades[1].symbol = a
        /\ ing.trades[2].symbol = b

=============================================================================
